---- MODULE Spec2Model ----
(***************************************************************************)
(* Model of the college ERP proxy backend: the session cache               *)
(* (redis_utils.py), the dashboard and logout handlers (main.py), the      *)
(* dashboard orchestrator (services.py) and the extraction helpers         *)
(* (tools.py).                                                             *)
(*                                                                         *)
(* Python values are tagged records: None, str (a sequence of one-char     *)
(* strings), int, float (mantissa m and decimal scale k: m / 10^k), dict   *)
(* (a function from key strings to values).  JSON text is a second,        *)
(* differently tagged, family of records.  HTML pages are records of the   *)
(* structural features the code tests.                                     *)
(***************************************************************************)
EXTENDS Integers, Sequences, FiniteSets, TLC

\* ------------------------------------------------------------- bounds
\* Seconds of wall-clock time that pass in one Tick step.
TickSeconds == 3600
\* Longest leaf string given to the coercer.
MaxStrLen == 3
\* Most pieces a subject name given to format_oe_subject is made of.
MaxPieces == 4
\* Most subject columns of an attendance table; a row has up to two cells more.
MaxSubjects == 3
\* Most main headers of a marks table after 'S.No' and 'Subject Name'.
MaxComponents == 2

\* ------------------------------------------------------ Python values
PyNone == [t |-> "None"]
PyStr(s) == [t |-> "str", v |-> s]
PyInt(n) == [t |-> "int", v |-> n]
PyBool(b) == [t |-> "bool", v |-> b]
PyFloat(m, k) == [t |-> "float", v |-> <<m, k>>]
PyFloatSpecial(w) == [t |-> "float", v |-> w]
PyDict(f) == [t |-> "dict", v |-> f]
EmptyDict == PyDict(<<>>)

\* d[k] = v on a dict (insert or overwrite).
DictSet(d, k, v) == PyDict([x \in (DOMAIN d.v) \cup {k} |-> IF x = k THEN v ELSE d.v[x]])
\* k in d
DictHas(d, k) == k \in DOMAIN d.v
\* Python truthiness of the values the handlers test with `if x:` / `if not x:`.
Truthy(x) ==
  CASE x.t = "None" -> FALSE
    [] x.t = "dict" -> DOMAIN x.v # {}
    [] x.t = "str" -> x.v # <<>>
    [] x.t = "int" -> x.v # 0
    [] x.t = "bool" -> x.v
    [] OTHER -> TRUE

\* ------------------------------------------------- tools.py: coercion
Whitespace == {" ", "\t", "\n"}
Digit == {"0", "1", "2", "3", "4", "5", "6", "7", "8", "9"}
DigitVal(c) ==
  CASE c = "0" -> 0 [] c = "1" -> 1 [] c = "2" -> 2 [] c = "3" -> 3 [] c = "4" -> 4
    [] c = "5" -> 5 [] c = "6" -> 6 [] c = "7" -> 7 [] c = "8" -> 8 [] c = "9" -> 9

RECURSIVE LStrip(_)
LStrip(s) == IF s # <<>> /\ Head(s) \in Whitespace THEN LStrip(Tail(s)) ELSE s
RECURSIVE RStrip(_)
RStrip(s) ==
  IF s # <<>> /\ s[Len(s)] \in Whitespace THEN RStrip(SubSeq(s, 1, Len(s) - 1)) ELSE s
\* str.strip()
Strip(s) == RStrip(LStrip(s))

IsDigits(s) == Len(s) > 0 /\ \A i \in 1..Len(s) : s[i] \in Digit
RECURSIVE DigitsValue(_)
DigitsValue(s) ==
  IF s = <<>> THEN 0 ELSE 10 * DigitsValue(SubSeq(s, 1, Len(s) - 1)) + DigitVal(s[Len(s)])

HasSign(s) == s # <<>> /\ s[1] \in {"+", "-"}
Unsigned(s) == IF HasSign(s) THEN Tail(s) ELSE s
SignOf(s) == IF s # <<>> /\ s[1] = "-" THEN -1 ELSE 1

\* int(v) on a stripped string: an optional sign and one or more digits.
\* ok = FALSE stands for ValueError.
ParseInt(s) ==
  IF IsDigits(Unsigned(s))
    THEN [ok |-> TRUE, val |-> PyInt(SignOf(s) * DigitsValue(Unsigned(s)))]
    ELSE [ok |-> FALSE, val |-> PyNone]

\* Position of the first element of s that is in set cs, 0 if none.
FirstIn(s, cs) ==
  IF \E i \in 1..Len(s) : s[i] \in cs
    THEN CHOOSE i \in 1..Len(s) : s[i] \in cs /\ \A j \in 1..(i - 1) : s[j] \notin cs
    ELSE 0

LowerChar(c) ==
  CASE c = "I" -> "i" [] c = "N" -> "n" [] c = "F" -> "f" [] c = "A" -> "a"
    [] c = "T" -> "t" [] c = "Y" -> "y" [] c = "E" -> "e" [] c = "Q" -> "q"
    [] c = "S" -> "s" [] c = "M" -> "m" [] c = "L" -> "l" [] c = "G" -> "g" [] OTHER -> c
\* s.lower()
Lower(s) == [i \in 1..Len(s) |-> LowerChar(s[i])]

\* The float m * 10^(-k) in canonical form: m carries no trailing zero, so
\* two spellings of one number ("1e1", "10.") give one value.
RECURSIVE Canon(_, _)
Canon(m, k) ==
  IF m = 0 THEN PyFloat(0, 0)
  ELSE IF m % 10 = 0 THEN Canon(m \div 10, k - 1)
  ELSE PyFloat(m, k)

\* float(v) on a stripped string: [sign] (digits [. [digits]] | . digits)
\* [e [sign] digits], or inf / infinity / nan in any letter case.
ParseFloat(s) ==
  LET body == Unsigned(s)
      low == Lower(body)
      epos == FirstIn(low, {"e"})
      mant == IF epos = 0 THEN body ELSE SubSeq(body, 1, epos - 1)
      expo == IF epos = 0 THEN <<>> ELSE SubSeq(body, epos + 1, Len(body))
      dpos == FirstIn(mant, {"."})
      ip == IF dpos = 0 THEN mant ELSE SubSeq(mant, 1, dpos - 1)
      fp == IF dpos = 0 THEN <<>> ELSE SubSeq(mant, dpos + 1, Len(mant))
      mantOk == /\ ip \o fp # <<>>
                /\ \A i \in 1..Len(ip) : ip[i] \in Digit
                /\ \A i \in 1..Len(fp) : fp[i] \in Digit
      expOk == epos = 0 \/ IsDigits(Unsigned(expo))
      e == IF epos = 0 THEN 0 ELSE SignOf(expo) * DigitsValue(Unsigned(expo))
  IN  IF low \in {<<"i", "n", "f">>, <<"i", "n", "f", "i", "n", "i", "t", "y">>}
        THEN [ok |-> TRUE, val |-> PyFloatSpecial(IF SignOf(s) = 1 THEN "inf" ELSE "-inf")]
      ELSE IF low = <<"n", "a", "n">>
        THEN [ok |-> TRUE, val |-> PyFloatSpecial("nan")]
      ELSE IF mantOk /\ expOk
        THEN [ok |-> TRUE, val |-> Canon(SignOf(s) * DigitsValue(ip \o fp), Len(fp) - e)]
      ELSE [ok |-> FALSE, val |-> PyNone]

\* A mutated loop body: parses the value as it stands and stores the stripped
\* string when it does not parse.
CoerceLeafUnstripped(x) ==
  IF Strip(x.v) = <<>> THEN x
  ELSE IF ParseInt(x.v).ok THEN ParseInt(x.v).val
  ELSE IF ParseFloat(x.v).ok THEN ParseFloat(x.v).val
  ELSE PyStr(Strip(x.v))

\* The body of convert_values_to_number's loop for one str value: the
\* replacement stored under the key (the value itself when nothing is stored).
CoerceLeaf(x) ==
  LET v == Strip(x.v)
  IN  IF v = <<>> THEN x
      ELSE IF ParseInt(v).ok THEN ParseInt(v).val
      ELSE IF ParseFloat(v).ok THEN ParseFloat(v).val
      ELSE x

RECURSIVE convert_values_to_number(_)
convert_values_to_number(d) ==
  PyDict([k \in DOMAIN d.v |->
    IF d.v[k].t = "dict" THEN convert_values_to_number(d.v[k])
    ELSE IF d.v[k].t = "str" THEN CoerceLeaf(d.v[k])
    ELSE d.v[k]])

\* s.startswith(p)
StartsWith(s, p) == Len(s) >= Len(p) /\ SubSeq(s, 1, Len(p)) = p
\* s.endswith(p)
EndsWith(s, p) == Len(s) >= Len(p) /\ SubSeq(s, Len(s) - Len(p) + 1, Len(s)) = p
\* s.replace(old, ""): every occurrence, found left to right without overlap.
RECURSIVE RemoveAll(_, _)
RemoveAll(s, old) ==
  IF s = <<>> THEN <<>>
  ELSE IF StartsWith(s, old) THEN RemoveAll(SubSeq(s, Len(old) + 1, Len(s)), old)
  ELSE <<Head(s)>> \o RemoveAll(Tail(s), old)

OEPrefix == <<"O", "E", "-">>
OETag == <<"(", "O", "E", ")">>
\* format_oe_subject(subject), on a name given as its characters.
format_oe_subject(subject) ==
  IF StartsWith(subject, OEPrefix)
    THEN Strip(RemoveAll(RemoveAll(subject, OEPrefix), OETag)) \o OETag \o <<"-", "O", "E">>
    ELSE subject

\* to_number(value): the coercion of one marks-table cell.
to_number(value) ==
  IF value.t # "str" THEN value
  ELSE
    LET v == Strip(value.v)
    IN  IF v = <<"-">> THEN PyStr(<<"-">>)
        ELSE IF v = <<>> THEN PyInt(0)
        ELSE IF \A i \in 1..Len(v) : v[i] # "."
          THEN (IF ParseInt(v).ok THEN ParseInt(v).val ELSE PyStr(v))
        ELSE (IF ParseFloat(v).ok THEN ParseFloat(v).val ELSE PyStr(v))

\* ------------------------------------------------------------- JSON
PyList(q) == [t |-> "list", v |-> q]

\* json.dumps(value): the serialized text, as a tree of JSON tokens.
RECURSIVE JsonDumps(_)
JsonDumps(x) ==
  CASE x.t = "None" -> [j |-> "null"]
    [] x.t = "bool" -> [j |-> IF x.v THEN "true" ELSE "false"]
    [] x.t = "int" -> [j |-> "integer", lit |-> x.v]
    [] x.t = "float" -> [j |-> "real", lit |-> x.v]
    [] x.t = "str" -> [j |-> "string", lit |-> x.v]
    [] x.t = "list" -> [j |-> "array", items |-> [i \in 1..Len(x.v) |-> JsonDumps(x.v[i])]]
    [] x.t = "dict" -> [j |-> "object", members |-> [k \in DOMAIN x.v |-> JsonDumps(x.v[k])]]

\* A mutated decoder: hands back the serialized text undecoded.
JsonLoadsRaw(y) == y

\* json.loads(data)
RECURSIVE JsonLoads(_)
JsonLoads(y) ==
  CASE y.j = "null" -> PyNone
    [] y.j = "true" -> PyBool(TRUE)
    [] y.j = "false" -> PyBool(FALSE)
    [] y.j = "integer" -> PyInt(y.lit)
    [] y.j = "real" -> [t |-> "float", v |-> y.lit]
    [] y.j = "string" -> PyStr(y.lit)
    [] y.j = "array" -> PyList([i \in 1..Len(y.items) |-> JsonLoads(y.items[i])])
    [] y.j = "object" -> PyDict([k \in DOMAIN y.members |-> JsonLoads(y.members[k])])

\* ----------------------------------------------- redis_utils.py: cache
\* The Redis store maps a key to NoEntry or to the serialized text with the
\* seconds it has left to live.
NoEntry == [t |-> "nil"]
Entry(data, ttl) == [t |-> "entry", data |-> data, ttl |-> ttl]

\* The ttl passed by dashboard() to set_cached_data.
TTL == 3600

\* redis_key = f"erp:session:{session_id}"
RedisKey(session_id) == <<"erp:session:", session_id>>

\* A mutated read: the test of `data` is inverted, so nothing is ever decoded.
get_cached_data_never(store, key, fault) == PyNone

\* A mutated read: a command that raised still hands back the entry.
get_cached_data_stale(store, key, fault) ==
  IF store[key].t = "entry" THEN JsonLoads(store[key].data) ELSE PyNone

\* get_cached_data(redis_client, key): fault = the Redis command raises.
get_cached_data(store, key, fault) ==
  IF fault THEN PyNone
  ELSE IF store[key].t = "entry" THEN JsonLoads(store[key].data)
  ELSE PyNone

\* A mutated store: SETNX-like, keeps hiddenFields of an entry already there.
set_cached_data_merge(store, key, value, ttl, fault) ==
  IF fault THEN [store |-> store, ok |-> FALSE]
  ELSE IF store[key].t = "entry"
    THEN [store |-> [store EXCEPT ![key] = Entry(
                       [j |-> "object",
                        members |-> [k \in DOMAIN JsonDumps(value).members |->
                           IF k = "hiddenFields" THEN store[key].data.members[k]
                           ELSE JsonDumps(value).members[k]]], ttl)],
          ok |-> TRUE]
  ELSE [store |-> [store EXCEPT ![key] = Entry(JsonDumps(value), ttl)], ok |-> TRUE]

\* set_cached_data(redis_client, key, value, ttl): the new store and the
\* returned bool; an exception leaves the store as it was.
set_cached_data(store, key, value, ttl, fault) ==
  IF fault THEN [store |-> store, ok |-> FALSE]
  ELSE [store |-> [store EXCEPT ![key] = Entry(JsonDumps(value), ttl)], ok |-> TRUE]

\* A mutated delete: reports success and leaves the entry where it is.
delete_cache_keep(store, key, fault) == [store |-> store, ok |-> ~fault]

\* delete_cache(redis_client, key): the new store and the returned bool.
delete_cache(store, key, fault) ==
  IF fault THEN [store |-> store, ok |-> FALSE]
  ELSE [store |-> [store EXCEPT ![key] = NoEntry], ok |-> store[key].t = "entry"]

\* Redis expiry after dt seconds: every entry loses dt seconds and is gone
\* once none are left.
Elapse(store, dt) ==
  [k \in DOMAIN store |->
    IF store[k].t = "entry" /\ store[k].ttl - dt > 0
      THEN Entry(store[k].data, store[k].ttl - dt)
      ELSE NoEntry]

\* ------------------------------------------------- results of a call
Ok(val) == [ok |-> TRUE, val |-> val, err |-> "none"]
Raise(e) == [ok |-> FALSE, val |-> PyNone, err |-> e]
NoResult == [ok |-> FALSE, val |-> PyNone, err |-> "pending"]

\* ------------------------------------------------------------ pages
\* A dashboard page, by the features the code tests:
\*   logout      "Logout" occurs in the text
\*   hidden      the three hidden inputs are there
\*   info        divStudentInfo: "nodiv", "notable", "nodata" or "ok"
\*   summary     divAttSummary: "nodiv", "norow" (no data row) or "ok"
\*   ncells      number of td cells of the first data row
\*   attAnchor   cell 7 holds an anchor with a popUp onclick
\*   marksAnchor cell 8 holds an anchor with a popUp onclick
\*   onclick     the popUp onclick of those anchors: "quoted" (popUp('url', ...))
\*               or "bare" (popUp is named, no quoted target follows)
AllDashPages ==
  [logout : BOOLEAN, hidden : BOOLEAN, info : {"nodiv", "notable", "nodata", "ok"},
   summary : {"nodiv", "norow", "ok"}, ncells : 5..8,
   attAnchor : BOOLEAN, marksAnchor : BOOLEAN, onclick : {"quoted"}]
FullDash ==
  [logout |-> TRUE, hidden |-> TRUE, info |-> "ok", summary |-> "ok", ncells |-> 8,
   attAnchor |-> TRUE, marksAnchor |-> TRUE, onclick |-> "quoted"]
ExpiredDash == [FullDash EXCEPT !.logout = FALSE]
CoreDashPages == {FullDash, ExpiredDash}

\* An attendance sub-page response: HTTP status, an img element, the two
\* summary tables with their inner tables.
FullAtt == [t |-> "resp", status |-> 200, img |-> TRUE, tables |-> TRUE]
ErrorAtt == [t |-> "resp", status |-> 500, img |-> FALSE, tables |-> FALSE]
AllAttPages ==
  {FullAtt, ErrorAtt, [FullAtt EXCEPT !.img = FALSE], [FullAtt EXCEPT !.tables = FALSE]}
CoreAttPages == {FullAtt}

\* A marks sub-page response: HTTP status, a td holding "Gender", the second
\* table of class tableclass.
FullMarks == [t |-> "resp", status |-> 200, gender |-> TRUE, table |-> TRUE]
ErrorMarks == [t |-> "resp", status |-> 500, gender |-> FALSE, table |-> FALSE]
AllMarksPages ==
  {FullMarks, ErrorMarks, [FullMarks EXCEPT !.gender = FALSE],
   [FullMarks EXCEPT !.table = FALSE]}
CoreMarksPages == {FullMarks}

\* A fetch that has not resolved.
Pending == [t |-> "pending"]

\* ------------------------------------------ tools.py: dashboard page
SummaryHeaders ==
  <<"Year", "Sem.", "Academic Year", "Status", "Class Start Date", "Class End Date",
    "Attendance", "Marks">>
\* Text of the i-th cell of the first summary row (cell 7 and 8 hold only an
\* anchor, whose text is "view").
CellText(i) ==
  CASE i = 1 -> <<"2">> [] i = 2 -> <<"4">> [] i = 3 -> <<"2025-26">>
    [] i = 4 -> <<"Regular">> [] i = 5 -> <<"01-07-2025">> [] i = 6 -> <<"30-11-2025">>
    [] OTHER -> <<"view">>
SinfoBase == "https://erp.vce.ac.in/sinfo/"

\* extract_att_summary(html); tag names the response the page came in.
extract_att_summary(html, tag) ==
  IF html.summary = "nodiv" THEN Raise("CollegePortalError")
  ELSE IF html.summary = "norow" THEN Raise("CollegePortalError")
  ELSE IF html.ncells < 6 THEN Raise("CollegePortalError")
  ELSE IF html.onclick = "bare" /\ (\/ html.ncells > 6 /\ html.attAnchor
                                    \/ html.ncells > 7 /\ html.marksAnchor)
    THEN Raise("IndexError")
  ELSE
    LET row_data == PyDict([h \in {SummaryHeaders[i] : i \in 1..6} |->
                      PyStr(CellText(CHOOSE i \in 1..6 : SummaryHeaders[i] = h))])
        withAtt == IF html.ncells > 6 /\ html.attAnchor
                     THEN DictSet(row_data, "Attendance Link",
                                  PyStr(<<SinfoBase, "Attendance.aspx?", tag>>))
                     ELSE row_data
        withMarks == IF html.ncells > 7 /\ html.marksAnchor
                       THEN DictSet(withAtt, "Marks Link", PyStr(<<"Marks.aspx?", tag>>))
                       ELSE withAtt
    IN  Ok(withMarks)

\* get_student_info(html)
get_student_info(html, tag) ==
  IF html.info = "nodiv" THEN Raise("CollegePortalError")
  ELSE IF html.info = "notable" THEN Raise("CollegePortalError")
  ELSE IF html.info = "nodata" THEN Raise("CollegePortalError")
  ELSE Ok(convert_values_to_number(
            PyDict([k \in {"Name", "Roll No"} |->
              IF k = "Name" THEN PyStr(<<"Student of ", tag>>) ELSE PyStr(<<"1", "6">>)])))

\* startswith("marks") on the lower-cased header
StartsWithMarks(h) == h = "Marks"

\* A mutated get_current_sem: the link fields are read off the summary row
\* itself, as the text of the anchors in cells 7 and 8.
get_current_sem_anchor_text(html, tag) ==
  IF html.summary # "ok" THEN EmptyDict
  ELSE convert_values_to_number(
         PyDict([k \in {SummaryHeaders[i] : i \in 1..(IF html.ncells < 6 THEN html.ncells ELSE 6)}
                       \cup (IF html.ncells > 6 THEN {"Attendance Link"} ELSE {})
                       \cup (IF html.ncells > 7 THEN {"Marks Link"} ELSE {}) |->
           IF k \in {"Attendance Link", "Marks Link"} THEN PyStr(CellText(7))
           ELSE PyStr(CellText(CHOOSE i \in 1..6 : SummaryHeaders[i] = k))]))

\* get_current_sem(html)
get_current_sem(html, tag) ==
  IF html.summary = "nodiv" THEN EmptyDict
  ELSE IF html.summary = "norow" THEN EmptyDict
  ELSE
    LET shown == {i \in 1..html.ncells : ~StartsWithMarks(SummaryHeaders[i])}
        visible == PyDict([h \in {SummaryHeaders[i] : i \in shown} |->
                     PyStr(CellText(CHOOSE i \in shown : SummaryHeaders[i] = h))])
        dash_row == extract_att_summary(html, tag)
        withAtt == IF dash_row.ok /\ DictHas(dash_row.val, "Attendance Link")
                     THEN DictSet(visible, "Attendance Link", dash_row.val.v["Attendance Link"])
                     ELSE visible
        withMarks == IF dash_row.ok /\ DictHas(dash_row.val, "Marks Link")
                       THEN DictSet(withAtt, "Marks Link",
                              PyStr(<<SinfoBase>> \o dash_row.val.v["Marks Link"].v))
                       ELSE withAtt
        merged == IF dash_row.ok
                    THEN PyDict([k \in DOMAIN withMarks.v |->
                           IF k \in {SummaryHeaders[i] : i \in 1..6} /\ DictHas(dash_row.val, k)
                             THEN dash_row.val.v[k] ELSE withMarks.v[k]])
                    ELSE withMarks
    IN  convert_values_to_number(merged)

\* ------------------------------------------- tools.py: the sub-pages
\* get_attendance_subjects(html): <<per-subject matrix, totals matrix, image>>
get_attendance_subjects(page, tag) ==
  LET image_url == IF page.img THEN PyStr(<<"photo of ", tag>>) ELSE PyNone
  IN  IF ~page.tables THEN <<EmptyDict, EmptyDict, image_url>>
      ELSE <<PyDict([t \in {"Held Classes"} |->
                convert_values_to_number(PyDict([u \in {"DS"} |-> PyStr(<<"4", "2">>)]))]),
             PyDict([t \in {"Held Classes"} |->
                convert_values_to_number(PyDict([u \in {"Theory"} |-> PyStr(<<"4", "2">>)]))]),
             image_url>>

\* The matrix loops of get_attendance_subjects, on a table given by
\*   names   the header texts after the label cells (sub_headers[1:],
\*           sub_type_headers[2:]), each already stripped
\*   rows    per data row its title and its number of td cells; the value
\*           cell of subject column i reads "4i"
\*   offset  cells before the first value: 1 (per-subject table), 2 (totals)
UpperChar(c) == CASE c = "e" -> "E" [] c = "c" -> "C" [] c = "a" -> "A" [] OTHER -> c
\* A mutated upper(): leaves the name as it is.
UpperAsIs(s) == s
\* name.upper()
Upper(s) == [i \in 1..Len(s) |-> UpperChar(s[i])]
ECA == <<"E", "C", "A">>
\* [x for x in q if keep(x)], on the indices of q
RECURSIVE Select(_, _)
Select(q, keep) ==
  IF q = <<>> THEN <<>>
  ELSE (IF Head(q) \in keep THEN <<Head(q)>> ELSE <<>>) \o Select(Tail(q), keep)
\* full_subject_names
FullNames(names) == [i \in 1..Len(names) |-> format_oe_subject(Strip(names[i]))]
\* keep_indices (counted from 1)
KeepIndices(names) ==
  Select([i \in 1..Len(names) |-> i],
         {i \in 1..Len(names) : ~StartsWith(Upper(FullNames(names)[i]), ECA)})
\* subject_names
KeptNames(names) ==
  [j \in 1..Len(KeepIndices(names)) |-> FullNames(names)[KeepIndices(names)[j]]]
ValueText(i) == PyStr(<<"4", CASE i = 1 -> "1" [] i = 2 -> "2" [] i = 3 -> "3" [] i = 4 -> "4"
                                  [] i = 5 -> "5" [] OTHER -> "6">>)
\* values: the texts of the cells after the first `offset` ones
RowValues(ncells, offset) ==
  [i \in 1..(IF ncells > offset THEN ncells - offset ELSE 0) |-> ValueText(i)]
\* A mutated filter: the values as they stand, excluded columns included.
FilteredValuesAll(values, keep) == values
\* filtered_values = [values[i] for i in keep_indices if i < len(values)]
FilteredValues(values, keep) ==
  LET there == Select(keep, 1..Len(values))
  IN  [j \in 1..Len(there) |-> values[there[j]]]
\* dict(zip(keys, values)): the shorter list decides, a repeated key keeps its
\* last value.
DictZip(keys, values) ==
  LET n == IF Len(keys) < Len(values) THEN Len(keys) ELSE Len(values)
  IN  PyDict([k \in {keys[j] : j \in 1..n} |->
               values[CHOOSE j \in 1..n : keys[j] = k /\ \A i \in (j + 1)..n : keys[i] # k]])
\* The mapping stored for one data row.
RowMapping(names, ncells, offset) ==
  convert_values_to_number(
    DictZip(KeptNames(names), FilteredValues(RowValues(ncells, offset), KeepIndices(names))))
\* The loop over the data rows: a row without cells is skipped, a row too
\* short to hold its title raises IndexError.
AttendanceMatrix(names, rows, offset) ==
  LET used == {j \in 1..Len(rows) : rows[j].ncells > 0}
  IN  IF \E j \in used : rows[j].ncells < offset THEN Raise("IndexError")
      ELSE Ok(PyDict([t \in {rows[j].title : j \in used} |->
                RowMapping(names,
                           rows[CHOOSE j \in used : rows[j].title = t].ncells, offset)]))

\* parse_marks_table(html): <<marks data, gender>> or ValueError
parse_marks_table(page, tag) ==
  LET gender == IF page.gender THEN PyStr(<<"M">>) ELSE PyStr(<<"-">>)
      subject == PyDict([k \in {"s_no", "name", "grade"} |->
                   CASE k = "s_no" -> PyInt(1)
                     [] k = "name" -> PyStr(<<"DS">>)
                     [] k = "grade" -> PyStr(<<"grade of ", tag>>)])
      summary == PyDict([k \in {"total_marks", "sgpa"} |->
                   IF k = "sgpa" THEN PyStr(<<"-">>) ELSE EmptyDict])
  IN  IF ~page.table THEN Raise("ValueError")
      ELSE Ok(<<PyDict([k \in {"subjects", "summary"} |->
                   IF k = "subjects" THEN PyList(<<subject>>) ELSE summary]),
                gender>>)

\* ------------------------------------- tools.py: the marks table in detail
\* The table parse_marks_table reads, given by
\*   main_headers   the texts of row 1
\*   data_rows      rows[3:-2], each the texts of its td cells
\*   total_cells    the td cells of rows[-2], each a text and a colspan
\*   percent_cells  the texts of the td cells of rows[-1]
SNo == <<"S", ".", "N", "o">>
SubjectName == <<"S", "u", "b", "j", "e", "c", "t", " ", "N", "a", "m", "e">>
ExternalGrades == <<"E", "x", "t", "e", "r", "n", "a", "l", "G", "r", "a", "d", "e", "s">>
IntPrefix == <<"I", "n", "t">>
QuizPrefix == <<"Q", "u", "i", "z">>
AsstPrefix == <<"A", "s", "s", "t">>
SessionalPrefix == <<"S", "e", "s", "s", "i", "o", "n", "a", "l", "M", "a", "r", "k", "s">>
Dash == PyStr(<<"-">>)

\* component_map: one <<main_header, sub_type>> per column of a data row
RECURSIVE component_map(_)
component_map(main_headers) ==
  IF main_headers = <<>> THEN <<>>
  ELSE
    LET main_header == Head(main_headers)
    IN  (IF main_header \in {SNo, SubjectName} THEN << <<main_header, "single">> >>
         ELSE IF main_header = ExternalGrades
           THEN << <<main_header, "grade">>, <<main_header, "points">>,
                   <<main_header, "credits">> >>
         ELSE << <<main_header, "max">>, <<main_header, "secured">> >>)
        \o component_map(Tail(main_headers))

\* The value the row loop leaves in a field written by the columns `at`:
\* the cell of the last such column, the initial value when there is none.
LastCell(cells, at, initial) ==
  IF at = {} THEN initial
  ELSE to_number(PyStr(cells[CHOOSE i \in at : \A j \in at : j <= i]))

\* The columns of a component map with the given header and sub type.
ColumnsOf(cmap, main_header, sub_type) ==
  {i \in 1..Len(cmap) : cmap[i] = <<main_header, sub_type>>}

\* The keys of temp_components in insertion order: the score labels of the
\* component map, each once, in the order of their first column.
RECURSIVE ScoreLabels(_)
ScoreLabels(cmap) ==
  IF cmap = <<>> THEN <<>>
  ELSE
    LET rest == ScoreLabels(Tail(cmap))
        comp_name == Head(cmap)[1]
    IN  IF Head(cmap)[2] \in {"max", "secured"}
          THEN <<comp_name>> \o Select(rest, {rest[i] : i \in 1..Len(rest)} \ {comp_name})
          ELSE rest

\* x in ['-', 0]
IsDashOrZero(x) ==
  \/ x = Dash
  \/ x.t = "int" /\ x.v = 0
  \/ x.t = "float" /\ x.v = <<0, 0>>

\* max_val not in ['-', 0] and secured_val not in ['-', 0]
KeepsSessional(max_val, secured_val) ==
  ~IsDashOrZero(max_val) /\ ~IsDashOrZero(secured_val)

\* {"name": comp_name, "max": ..., "secured": ...}
ComponentEntry(comp_name, max_val, secured_val) ==
  PyDict([k \in {"name", "max", "secured"} |->
    CASE k = "name" -> PyStr(comp_name)
      [] k = "max" -> max_val
      [] k = "secured" -> secured_val])

\* A mutated classification: every score label goes to the family asked for.
FamilyLabelsAll(labels, prefix) == labels

\* The labels the classification sends to the family of `prefix`: the first
\* prefix in the order Int, Quiz, Asst, SessionalMarks that the label starts
\* with decides.
FamilyLabels(labels, prefix) ==
  LET order == <<IntPrefix, QuizPrefix, AsstPrefix, SessionalPrefix>>
      family(name) ==
        IF \E i \in 1..4 : StartsWith(name, order[i])
          THEN order[CHOOSE i \in 1..4 : StartsWith(name, order[i]) /\
                       \A j \in 1..(i - 1) : ~StartsWith(name, order[j])]
          ELSE <<>>
  IN  Select(labels, {labels[i] : i \in 1..Len(labels)} \cap
                     {name \in {labels[i] : i \in 1..Len(labels)} : family(name) = prefix})

\* subject["components"][family] after the classification loop
FamilyList(cmap, cells, prefix) ==
  LET names == FamilyLabels(ScoreLabels(cmap), prefix)
      max_val(name) == LastCell(cells, ColumnsOf(cmap, name, "max"), PyInt(0))
      secured_val(name) == LastCell(cells, ColumnsOf(cmap, name, "secured"), PyInt(0))
      kept == IF prefix = SessionalPrefix
                THEN Select(names, {names[i] : i \in 1..Len(names)} \cap
                       {name \in {names[i] : i \in 1..Len(names)} :
                          KeepsSessional(max_val(name), secured_val(name))})
                ELSE names
  IN  PyList([i \in 1..Len(kept) |->
        ComponentEntry(kept[i], max_val(kept[i]), secured_val(kept[i]))])

\* The subject built from one data row.
Subject(cmap, cells) ==
  PyDict([k \in {"s_no", "name", "credits", "components", "grade", "grade_points"} |->
    CASE k = "s_no" -> LastCell(cells, ColumnsOf(cmap, SNo, "single"), PyInt(0))
      [] k = "name" -> LastCell(cells, ColumnsOf(cmap, SubjectName, "single"), PyStr(<<>>))
      [] k = "credits" -> LastCell(cells, ColumnsOf(cmap, ExternalGrades, "credits"), PyInt(0))
      [] k = "grade" -> LastCell(cells, ColumnsOf(cmap, ExternalGrades, "grade"), Dash)
      [] k = "grade_points" ->
           LastCell(cells, ColumnsOf(cmap, ExternalGrades, "points"), PyInt(0))
      [] k = "components" ->
           PyDict([f \in {"assignment", "quiz", "internal", "sessional"} |->
             FamilyList(cmap, cells,
               CASE f = "assignment" -> AsstPrefix
                 [] f = "quiz" -> QuizPrefix
                 [] f = "internal" -> IntPrefix
                 [] f = "sessional" -> SessionalPrefix)])])

\* subjects: a row whose cell count differs from the component map is skipped
Subjects(main_headers, data_rows) ==
  LET cmap == component_map(main_headers)
      used == Select([i \in 1..Len(data_rows) |-> i],
                     {i \in 1..Len(data_rows) : Len(data_rows[i]) = Len(cmap)})
  IN  PyList([j \in 1..Len(used) |-> Subject(cmap, data_rows[used[j]])])

\* total_values: the coerced texts of the cells whose colspan is not 2
TotalValues(total_cells) ==
  LET valued == Select([i \in 1..Len(total_cells) |-> i],
                       {i \in 1..Len(total_cells) : total_cells[i].colspan # 2})
  IN  [j \in 1..Len(valued) |-> to_number(PyStr(total_cells[valued[j]].text))]

PercentageLabel == <<"P", "e", "r", "c", "e", "n", "t", "a", "g", "e">>
SGPA == <<"S", "G", "P", "A">>
\* percent_values, without its 'sgpa' key: the texts that are neither the
\* label nor the SGPA go to the main headers from the third on, in order.
PercentValues(main_headers, percent_cells) ==
  LET valued == Select([i \in 1..Len(percent_cells) |-> i],
                       {i \in 1..Len(percent_cells) :
                          percent_cells[i] # PercentageLabel /\
                          ~StartsWith(percent_cells[i], SGPA)})
      n == IF Len(valued) < Len(main_headers) - 2 THEN Len(valued) ELSE Len(main_headers) - 2
  IN  DictZip([j \in 1..(IF n > 0 THEN n ELSE 0) |-> main_headers[j + 2]],
              [j \in 1..(IF n > 0 THEN n ELSE 0) |-> to_number(PyStr(percent_cells[valued[j]]))])

\* percent_values.get('sgpa', '-')
Sgpa(percent_cells) ==
  LET at == {i \in 1..Len(percent_cells) :
               percent_cells[i] # PercentageLabel /\ StartsWith(percent_cells[i], SGPA)}
  IN  IF at = {} THEN Dash ELSE PyStr(percent_cells[CHOOSE i \in at : \A j \in at : j <= i])

\* main_header.startswith(('Int', 'Quiz', 'Asst', 'SessionalMarks'))
KnownPrefix(main_header) ==
  \E p \in {IntPrefix, QuizPrefix, AsstPrefix, SessionalPrefix} : StartsWith(main_header, p)

\* total_values[i] if i < len(total_values) else 0, i counted from 0
TotalAt(total_values, i) == IF i < Len(total_values) THEN total_values[i + 1] ELSE PyInt(0)

\* What the loop adds to total_idx after a header.
TotalStep(main_header) ==
  IF main_header = ExternalGrades THEN 3
  ELSE IF KnownPrefix(main_header) THEN 2
  ELSE 0

\* summary["total_marks"] after the loop over `headers` (main_headers[2:] at
\* first) that starts at total_idx with the entries `sofar`.
RECURSIVE TotalMarks(_, _, _, _, _)
TotalMarks(headers, total_idx, total_values, percent_values, sofar) ==
  IF headers = <<>> THEN sofar
  ELSE
    LET main_header == Head(headers)
        entry == PyDict([k \in {"max", "secured", "percentage"} |->
                   CASE k = "max" -> TotalAt(total_values, total_idx)
                     [] k = "secured" -> TotalAt(total_values, total_idx + 1)
                     [] k = "percentage" ->
                          IF DictHas(percent_values, main_header)
                            THEN percent_values.v[main_header] ELSE PyNone])
    IN  TotalMarks(Tail(headers), total_idx + TotalStep(main_header), total_values,
                   percent_values,
                   IF main_header # ExternalGrades /\ KnownPrefix(main_header)
                     THEN DictSet(sofar, Lower(main_header), entry) ELSE sofar)

\* summary
Summary(main_headers, total_cells, percent_cells) ==
  PyDict([k \in {"total_marks", "sgpa"} |->
    IF k = "sgpa" THEN Sgpa(percent_cells)
    ELSE TotalMarks(SubSeq(main_headers, 3, Len(main_headers)), 0, TotalValues(total_cells),
                    PercentValues(main_headers, percent_cells), EmptyDict)])

\* The first element of what parse_marks_table returns.
MarksData(main_headers, data_rows, total_cells, percent_cells) ==
  PyDict([k \in {"subjects", "summary"} |->
    IF k = "subjects" THEN Subjects(main_headers, data_rows)
    ELSE Summary(main_headers, total_cells, percent_cells)])

\* --------------------------------- services.py: fetch_dashboard_data
\* A mutated pair of GETs: both go to the attendance link.
SubPageTasksSame(current_sem) ==
  <<current_sem.v["Attendance Link"], current_sem.v["Attendance Link"]>>

\* attendance_task, marks_task: the URLs of the two GETs handed to gather.
SubPageTasks(current_sem) ==
  <<current_sem.v["Attendance Link"], current_sem.v["Marks Link"]>>

\* The synchronous part before the two sub-page fetches are awaited: the
\* hidden inputs, the profile, the semester row and the two link lookups.
FetchPrefix(html, tag) ==
  IF ~html.hidden THEN Raise("TypeError")
  ELSE IF ~get_student_info(html, tag).ok THEN Raise(get_student_info(html, tag).err)
  ELSE IF ~DictHas(get_current_sem(html, tag), "Attendance Link") THEN Raise("KeyError")
  ELSE IF ~DictHas(get_current_sem(html, tag), "Marks Link") THEN Raise("KeyError")
  ELSE Ok([student_dashboard |-> get_student_info(html, tag).val,
           current_sem |-> get_current_sem(html, tag),
           tasks |-> SubPageTasks(get_current_sem(html, tag)),
           hiddenFields |-> PyDict([k \in {"viewstate", "viewstate_generator",
                                           "event_validation"} |-> PyStr(<<k, " of ", tag>>)])])

\* A mutated gather: returns as soon as one of the two fetches has resolved.
GatherReturnsFirst(attendance_response, marks_response) ==
  attendance_response.t = "resp" \/ marks_response.t = "resp"

\* asyncio.gather(attendance_task, marks_task) returns.
GatherReturns(attendance_response, marks_response) ==
  attendance_response.t = "resp" /\ marks_response.t = "resp"

\* The part after the gather: both parses and the returned dict.  A response
\* that is not there cannot be parsed.
Assemble(w, attendance_response, marks_response, tag) ==
  IF attendance_response.t # "resp" \/ marks_response.t # "resp" THEN Raise("UnboundLocalError")
  ELSE IF ~parse_marks_table(marks_response, tag).ok THEN Raise("ValueError")
  ELSE
    LET marks == parse_marks_table(marks_response, tag).val
        att == get_attendance_subjects(attendance_response, tag)
        board == DictSet(w.student_dashboard, "Gender", marks[2])
        keys == {"DashBoard", "Current Sem", "Subjects Attendance Data",
                 "Total Attendance Data", "Student Image", "Marks Data"}
        dashboardData == PyDict([k \in keys |->
          CASE k = "DashBoard" -> board
            [] k = "Current Sem" -> w.current_sem
            [] k = "Subjects Attendance Data" -> att[1]
            [] k = "Total Attendance Data" -> att[2]
            [] k = "Student Image" -> att[3]
            [] k = "Marks Data" -> marks[1]])
    IN  Ok(PyDict([k \in {"dashboardData", "hiddenFields"} |->
             IF k = "dashboardData" THEN dashboardData ELSE w.hiddenFields]))

\* A mutated marker test: every page counts as authenticated.
SessionAliveAlways(html) == TRUE

\* "Logout" in html_text
SessionAlive(html) == html.logout

\* ------------------------------------------------- what a page lacks
DashDefects(html) ==
  (IF html.logout THEN {} ELSE {"logout"})
  \cup (IF html.hidden THEN {} ELSE {"hidden_inputs"})
  \cup (CASE html.info = "nodiv" -> {"student_div"}
          [] html.info = "notable" -> {"student_table"}
          [] html.info = "nodata" -> {"student_data"}
          [] OTHER -> {})
  \cup (CASE html.summary = "nodiv" -> {"summary_div"}
          [] html.summary = "norow" -> {"summary_row"}
          [] html.ncells < 6 -> {"summary_cells"}
          [] OTHER -> (IF html.ncells > 6 /\ html.attAnchor THEN {} ELSE {"att_link"})
                      \cup (IF html.ncells > 7 /\ html.marksAnchor THEN {} ELSE {"marks_link"}))
AttDefects(page) ==
  (IF page.status = 200 THEN {} ELSE {"status"})
  \cup (IF page.img THEN {} ELSE {"image"})
  \cup (IF page.tables THEN {} ELSE {"att_tables"})
MarksDefects(page) ==
  (IF page.status = 200 THEN {} ELSE {"status"})
  \cup (IF page.gender THEN {} ELSE {"gender"})
  \cup (IF page.table THEN {} ELSE {"marks_table"})
MandatorySections ==
  {"student_div", "student_table", "summary_div", "summary_row", "summary_cells",
   "marks_table"}
OptionalFields == {"att_link", "marks_link", "image", "gender"}

\* ------------------------------------------------------------ state
Requests == {"r1", "r2"}
\* The logout that runs next to the dashboard requests, and the two that
\* run one after the other when logouts are exercised on their own.
Logouts == {"l1"}
AllLogouts == {"l1", "l2"}
Sessions == {"s1", "s2"}
\* The session the dashboard requests are made for; s2 is never cached.
DashSessions == {"s1"}
Keys == {RedisKey(s) : s \in Sessions}

VARIABLES
  cache,      \* the Redis store
  redisErr,   \* the last Redis command raised
  lastStore,  \* per key: who stored last and what (none after delete or expiry)
  loggedOut,  \* per key: a logout that found an entry has deleted and returned
  pc,         \* per dashboard request: where the handler is
  sid,        \* per dashboard request: req.session_id
  work,       \* per dashboard request: student_dashboard, current_sem, hidden fields
  attResp,    \* per dashboard request: attendance_response
  marksResp,  \* per dashboard request: marks_response
  first,      \* per dashboard request: which sub-page fetch resolved first
  data,       \* per dashboard request: dashboard_data
  result,     \* per dashboard request: the response or the exception raised
  defects,    \* per dashboard request: what the pages it received lacked
  nfetch,     \* per dashboard request: upstream GETs issued
  wrote,      \* per dashboard request: its store reached Redis
  fresh,      \* per dashboard request: started after the last completed logout
  lpc,        \* per logout: where the handler is
  lsid,       \* per logout: req.session_id
  lhidden,    \* per logout: hidden_fields
  lresult,    \* per logout: the response
  posts,      \* per logout: logout POSTs sent upstream
  apiCall,    \* cache API exercised directly: the last call and what it returned
  lastOp,     \* cache API exercised directly: per key, the last call that took effect
  cx,         \* coercer: the mapping given
  cy,         \* coercer: the mapping after one pass
  cz,         \* coercer: the mapping after two passes
  cstage,     \* coercer: passes made
  call,       \* a helper of tools.py called on its own: the function and its argument
  ret         \* a helper of tools.py called on its own: what it returned

dashVars == <<pc, sid, work, attResp, marksResp, first, data, result, defects, nfetch,
              wrote, fresh>>
logoutVars == <<lpc, lsid, lhidden, lresult, posts>>
cacheVars == <<cache, redisErr, lastStore, loggedOut>>
apiVars == <<apiCall, lastOp>>
coerceVars == <<cx, cy, cz, cstage>>
toolVars == <<call, ret>>
vars == <<cacheVars, dashVars, logoutVars, apiVars, coerceVars, toolVars>>

NoStore == [by |-> "none", value |-> PyNone]
NoWork == [t |-> "none"]

NoCall == [op |-> "none"]
NoOp == [op |-> "none", value |-> PyNone]

ApiIdle ==
  /\ apiCall = NoCall
  /\ lastOp = [k \in Keys |-> NoOp]
CoerceIdle ==
  /\ cx = EmptyDict
  /\ cy = EmptyDict
  /\ cz = EmptyDict
  /\ cstage = 0
NoReturn == [t |-> "not returned"]
ToolIdle ==
  /\ call = [fn |-> "none", arg |-> PyNone]
  /\ ret = NoReturn

HandlersIdle ==
  /\ redisErr = FALSE
  /\ lastStore = [k \in Keys |-> NoStore]
  /\ loggedOut = [k \in Keys |-> FALSE]
  /\ pc = [r \in Requests |-> "idle"]
  /\ sid = [r \in Requests |-> "s1"]
  /\ work = [r \in Requests |-> NoWork]
  /\ attResp = [r \in Requests |-> Pending]
  /\ marksResp = [r \in Requests |-> Pending]
  /\ first = [r \in Requests |-> "none"]
  /\ data = [r \in Requests |-> PyNone]
  /\ result = [r \in Requests |-> NoResult]
  /\ defects = [r \in Requests |-> {}]
  /\ nfetch = [r \in Requests |-> 0]
  /\ wrote = [r \in Requests |-> FALSE]
  /\ fresh = [r \in Requests |-> TRUE]
  /\ lpc = [l \in AllLogouts |-> "idle"]
  /\ lsid = [l \in AllLogouts |-> "s1"]
  /\ lhidden = [l \in AllLogouts |-> PyNone]
  /\ lresult = [l \in AllLogouts |-> "none"]
  /\ posts = [l \in AllLogouts |-> 0]

Init ==
  /\ cache = [k \in Keys |-> NoEntry]
  /\ HandlersIdle
  /\ ApiIdle
  /\ CoerceIdle
  /\ ToolIdle

\* ------------------------------------------- main.py: dashboard()
\* The handler returns or raises: its locals are gone.
Finish(r, res) ==
  /\ pc' = [pc EXCEPT ![r] = "done"]
  /\ result' = [result EXCEPT ![r] = res]
  /\ work' = [work EXCEPT ![r] = NoWork]
  /\ attResp' = [attResp EXCEPT ![r] = Pending]
  /\ marksResp' = [marksResp EXCEPT ![r] = Pending]
  /\ first' = [first EXCEPT ![r] = "none"]
  /\ data' = [data EXCEPT ![r] = PyNone]
  /\ fresh' = [fresh EXCEPT ![r] = TRUE]

\* A POST /dashboard arrives and the handler awaits get_cached_data.
Start(r, s) ==
  /\ pc[r] \in {"idle", "done"}
  /\ pc' = [pc EXCEPT ![r] = "cache_get"]
  /\ sid' = [sid EXCEPT ![r] = s]
  /\ result' = [result EXCEPT ![r] = NoResult]
  /\ defects' = [defects EXCEPT ![r] = {}]
  /\ nfetch' = [nfetch EXCEPT ![r] = 0]
  /\ wrote' = [wrote EXCEPT ![r] = FALSE]
  /\ fresh' = [fresh EXCEPT ![r] = TRUE]
  /\ UNCHANGED <<work, attResp, marksResp, first, data>>
  /\ UNCHANGED <<cacheVars, logoutVars, apiVars, coerceVars, toolVars>>

\* get_cached_data returns: a hit is answered from the cache, anything else
\* goes on to GET the dashboard page.
CacheGet(r, fault) ==
  /\ pc[r] = "cache_get"
  /\ LET cached_data == get_cached_data(cache, RedisKey(sid[r]), fault)
     IN  IF Truthy(cached_data)
           THEN /\ Finish(r, Ok(cached_data.v["dashboardData"]))
                /\ UNCHANGED nfetch
           ELSE /\ pc' = [pc EXCEPT ![r] = "dash_get"]
                /\ nfetch' = [nfetch EXCEPT ![r] = 1]
                /\ UNCHANGED <<result, work, attResp, marksResp, first, data, fresh>>
  /\ redisErr' = fault
  /\ UNCHANGED <<cache, lastStore, loggedOut, sid, defects, wrote>>
  /\ UNCHANGED <<logoutVars, apiVars, coerceVars, toolVars>>

\* The dashboard page arrives: the marker test, then fetch_dashboard_data up
\* to the point where both sub-page GETs are under way.
RecvDashboard(r, html) ==
  /\ pc[r] = "dash_get"
  /\ defects' = [defects EXCEPT ![r] = DashDefects(html)]
  /\ IF ~SessionAlive(html)
       THEN Finish(r, Raise("HTTPException 401")) /\ UNCHANGED nfetch
     ELSE IF ~FetchPrefix(html, r).ok
       THEN Finish(r, Raise(FetchPrefix(html, r).err)) /\ UNCHANGED nfetch
     ELSE /\ pc' = [pc EXCEPT ![r] = "gather"]
          /\ work' = [work EXCEPT ![r] = FetchPrefix(html, r).val]
          /\ nfetch' = [nfetch EXCEPT ![r] = 3]
          /\ UNCHANGED <<result, attResp, marksResp, first, data, fresh>>
  /\ UNCHANGED <<sid, wrote, cacheVars, logoutVars, apiVars, coerceVars, toolVars>>

\* The GET of the dashboard page raises (network error, timeout).
DashboardUnreachable(r) ==
  /\ pc[r] = "dash_get"
  /\ defects' = [defects EXCEPT ![r] = {"net"}]
  /\ Finish(r, Raise("RequestError"))
  /\ UNCHANGED <<sid, nfetch, wrote, cacheVars, logoutVars, apiVars, coerceVars, toolVars>>

\* The attendance sub-page GET resolves with a response.
AttResolve(r, page) ==
  /\ pc[r] = "gather"
  /\ attResp[r] = Pending
  /\ attResp' = [attResp EXCEPT ![r] = page]
  /\ first' = [first EXCEPT ![r] = IF first[r] = "none" THEN "attendance" ELSE first[r]]
  /\ defects' = [defects EXCEPT ![r] = defects[r] \cup AttDefects(page)]
  /\ UNCHANGED <<pc, sid, work, marksResp, data, result, nfetch, wrote, fresh>>
  /\ UNCHANGED <<cacheVars, logoutVars, apiVars, coerceVars, toolVars>>

\* The marks sub-page GET resolves with a response.
MarksResolve(r, page) ==
  /\ pc[r] = "gather"
  /\ marksResp[r] = Pending
  /\ marksResp' = [marksResp EXCEPT ![r] = page]
  /\ first' = [first EXCEPT ![r] = IF first[r] = "none" THEN "marks" ELSE first[r]]
  /\ defects' = [defects EXCEPT ![r] = defects[r] \cup MarksDefects(page)]
  /\ UNCHANGED <<pc, sid, work, attResp, data, result, nfetch, wrote, fresh>>
  /\ UNCHANGED <<cacheVars, logoutVars, apiVars, coerceVars, toolVars>>

\* One of the two sub-page GETs raises: gather re-raises at once and the
\* sibling's outcome is never looked at.
SubFetchFails(r) ==
  /\ pc[r] = "gather"
  /\ attResp[r] = Pending \/ marksResp[r] = Pending
  /\ defects' = [defects EXCEPT ![r] = defects[r] \cup {"net"}]
  /\ Finish(r, Raise("RequestError"))
  /\ UNCHANGED <<sid, nfetch, wrote, cacheVars, logoutVars, apiVars, coerceVars, toolVars>>

\* gather has returned: both sub-pages are parsed and the dict is built; the
\* handler then awaits set_cached_data.
Parse(r) ==
  /\ pc[r] = "gather"
  /\ GatherReturns(attResp[r], marksResp[r])
  /\ LET dashboard_data == Assemble(work[r], attResp[r], marksResp[r], r)
     IN  IF dashboard_data.ok
           THEN /\ pc' = [pc EXCEPT ![r] = "cache_set"]
                /\ data' = [data EXCEPT ![r] = dashboard_data.val]
                /\ UNCHANGED <<result, work, attResp, marksResp, first, fresh>>
           ELSE Finish(r, Raise(dashboard_data.err))
  /\ UNCHANGED <<sid, defects, nfetch, wrote, cacheVars, logoutVars, apiVars, coerceVars, toolVars>>

\* set_cached_data returns (its bool is dropped) and the snapshot is returned.
CacheSet(r, fault) ==
  /\ pc[r] = "cache_set"
  /\ LET key == RedisKey(sid[r])
         out == set_cached_data(cache, key, data[r], TTL, fault)
     IN  /\ cache' = out.store
         /\ wrote' = [wrote EXCEPT ![r] = out.ok]
         /\ lastStore' = IF out.ok THEN [lastStore EXCEPT ![key] = [by |-> r, value |-> data[r]]]
                         ELSE lastStore
         /\ loggedOut' = IF out.ok /\ fresh[r] THEN [loggedOut EXCEPT ![key] = FALSE]
                         ELSE loggedOut
  /\ redisErr' = fault
  /\ Finish(r, Ok(data[r].v["dashboardData"]))
  /\ UNCHANGED <<sid, defects, nfetch, logoutVars, apiVars, coerceVars, toolVars>>

\* ---------------------------------------------- main.py: logout()
\* A POST /logout arrives and the handler awaits get_cached_data.
LStart(l, s) ==
  /\ lpc[l] \in {"idle", "done"}
  /\ lpc' = [lpc EXCEPT ![l] = "cache_get"]
  /\ lsid' = [lsid EXCEPT ![l] = s]
  /\ lhidden' = [lhidden EXCEPT ![l] = PyNone]
  /\ lresult' = [lresult EXCEPT ![l] = "none"]
  /\ posts' = [posts EXCEPT ![l] = 0]
  /\ UNCHANGED <<cacheVars, dashVars, apiVars, coerceVars, toolVars>>

\* get_cached_data returns: without an entry the handler answers at once,
\* with one it sends the logout POST.
LGet(l, fault) ==
  /\ lpc[l] = "cache_get"
  /\ LET cached_data == get_cached_data(cache, RedisKey(lsid[l]), fault)
     IN  IF ~Truthy(cached_data)
           THEN /\ lpc' = [lpc EXCEPT ![l] = "done"]
                /\ lresult' = [lresult EXCEPT ![l] = "no active session"]
                /\ UNCHANGED <<lhidden, posts>>
           ELSE /\ lpc' = [lpc EXCEPT ![l] = "post"]
                /\ lhidden' = [lhidden EXCEPT ![l] = cached_data.v["hiddenFields"]]
                /\ posts' = [posts EXCEPT ![l] = 1]
                /\ UNCHANGED lresult
  /\ redisErr' = fault
  /\ UNCHANGED <<cache, lastStore, loggedOut, lsid, dashVars, apiVars, coerceVars, toolVars>>

\* The portal answers the logout POST; the handler awaits delete_cache.
LPost(l) ==
  /\ lpc[l] = "post"
  /\ lpc' = [lpc EXCEPT ![l] = "delete"]
  /\ UNCHANGED <<lsid, lhidden, lresult, posts, cacheVars, dashVars, apiVars, coerceVars, toolVars>>

\* The logout POST raises: the handler never reaches delete_cache.
LPostFails(l) ==
  /\ lpc[l] = "post"
  /\ lpc' = [lpc EXCEPT ![l] = "done"]
  /\ lresult' = [lresult EXCEPT ![l] = "RequestError"]
  /\ lhidden' = [lhidden EXCEPT ![l] = PyNone]
  /\ UNCHANGED <<lsid, posts, cacheVars, dashVars, apiVars, coerceVars, toolVars>>

\* delete_cache returns and the handler answers success.
LDelete(l, fault) ==
  /\ lpc[l] = "delete"
  /\ LET key == RedisKey(lsid[l])
         out == delete_cache(cache, key, fault)
     IN  /\ cache' = out.store
         /\ lastStore' = IF fault THEN lastStore ELSE [lastStore EXCEPT ![key] = NoStore]
         /\ loggedOut' = IF fault THEN loggedOut ELSE [loggedOut EXCEPT ![key] = TRUE]
         /\ fresh' = IF fault THEN fresh
                     ELSE [r \in Requests |-> IF sid[r] = lsid[l] /\ pc[r] \notin {"idle", "done"}
                                                THEN FALSE ELSE fresh[r]]
  /\ redisErr' = fault
  /\ lpc' = [lpc EXCEPT ![l] = "done"]
  /\ lresult' = [lresult EXCEPT ![l] = "logged out"]
  /\ lhidden' = [lhidden EXCEPT ![l] = PyNone]
  /\ UNCHANGED <<lsid, posts, apiVars, coerceVars, toolVars>>
  /\ UNCHANGED <<pc, sid, work, attResp, marksResp, first, data, result, defects, nfetch, wrote>>

\* ------------------------------------------------------------ Redis
\* TickSeconds pass: entries age and the expired ones vanish.
Tick ==
  /\ \E k \in DOMAIN cache : cache[k].t = "entry"
  /\ cache' = Elapse(cache, TickSeconds)
  /\ lastStore' = [k \in DOMAIN lastStore |->
                     IF Elapse(cache, TickSeconds)[k].t = "entry" THEN lastStore[k] ELSE NoStore]
  /\ UNCHANGED <<redisErr, loggedOut, dashVars, logoutVars, apiVars, coerceVars, toolVars>>

Dashboard(r, dashPages, attPages, marksPages) ==
  \/ \E s \in DashSessions : Start(r, s)
  \/ \E fault \in BOOLEAN : CacheGet(r, fault)
  \/ \E html \in dashPages : RecvDashboard(r, html)
  \/ DashboardUnreachable(r)
  \/ \E page \in attPages : AttResolve(r, page)
  \/ \E page \in marksPages : MarksResolve(r, page)
  \/ SubFetchFails(r)
  \/ Parse(r)
  \/ \E fault \in BOOLEAN : CacheSet(r, fault)

Logout(l) ==
  \/ \E s \in Sessions : LStart(l, s)
  \/ \E fault \in BOOLEAN : LGet(l, fault)
  \/ LPost(l)
  \/ LPostFails(l)
  \/ \E fault \in BOOLEAN : LDelete(l, fault)

\* Concurrent dashboard requests and a logout on the session cache.
Next ==
  \/ \E r \in Requests : Dashboard(r, CoreDashPages, CoreAttPages, CoreMarksPages)
  \/ \E l \in Logouts : Logout(l)
  \/ Tick

Spec == Init /\ [][Next]_vars

\* One dashboard request at a time, over every page shape.
NextPages ==
  \/ Dashboard("r1", AllDashPages, AllAttPages, AllMarksPages)
  \/ Tick

SpecPages == Init /\ [][NextPages]_vars

\* --------------------------------------- the cache API on its own
\* The values dashboard() stores: every dict fetch_dashboard_data can return.
CacheValues ==
  {Assemble(FetchPrefix(FullDash, r).val, a, m, r).val :
     r \in {"r1"}, a \in AllAttPages, m \in {p \in AllMarksPages : p.table}}

ApiSet(k, v, fault) ==
  /\ LET out == set_cached_data(cache, k, v, TTL, fault)
     IN  /\ cache' = out.store
         /\ apiCall' = [op |-> "set", key |-> k, fault |-> fault, ret |-> PyBool(out.ok),
                        before |-> lastOp[k]]
         /\ lastOp' = IF out.ok THEN [lastOp EXCEPT ![k] = [op |-> "set", value |-> v]]
                      ELSE lastOp
  /\ UNCHANGED <<redisErr, lastStore, loggedOut, dashVars, logoutVars, coerceVars, toolVars>>

ApiGet(k, fault) ==
  /\ apiCall' = [op |-> "get", key |-> k, fault |-> fault,
                 ret |-> get_cached_data(cache, k, fault), before |-> lastOp[k]]
  /\ UNCHANGED <<cache, lastOp, redisErr, lastStore, loggedOut, dashVars, logoutVars,
                 coerceVars, toolVars>>

ApiDelete(k, fault) ==
  /\ LET out == delete_cache(cache, k, fault)
     IN  /\ cache' = out.store
         /\ apiCall' = [op |-> "delete", key |-> k, fault |-> fault, ret |-> PyBool(out.ok),
                        before |-> lastOp[k]]
         /\ lastOp' = IF fault THEN lastOp
                      ELSE [lastOp EXCEPT ![k] = [op |-> "delete", value |-> PyNone]]
  /\ UNCHANGED <<redisErr, lastStore, loggedOut, dashVars, logoutVars, coerceVars, toolVars>>

\* Time passes on the store: half a tick ages the entries, a whole one
\* outlives their TTL.
TickSteps == {TickSeconds \div 2, TickSeconds}
ApiTick(dt) ==
  /\ \E k \in DOMAIN cache : cache[k].t = "entry"
  /\ cache' = Elapse(cache, dt)
  /\ lastOp' = [k \in DOMAIN lastOp |->
                  IF cache[k].t = "entry" /\ Elapse(cache, dt)[k].t = "nil"
                    THEN [op |-> "expired", value |-> PyNone] ELSE lastOp[k]]
  /\ apiCall' = NoCall
  /\ UNCHANGED <<redisErr, lastStore, loggedOut, dashVars, logoutVars, coerceVars, toolVars>>

NextCache ==
  \/ \E k \in Keys, v \in CacheValues, fault \in BOOLEAN : ApiSet(k, v, fault)
  \/ \E k \in Keys, fault \in BOOLEAN : ApiGet(k, fault)
  \/ \E k \in Keys, fault \in BOOLEAN : ApiDelete(k, fault)
  \/ \E dt \in TickSteps : ApiTick(dt)

SpecCache == Init /\ [][NextCache]_vars

\* ------------------------------------------ logouts on their own
\* Two logouts one after the other, with no dashboard request: the session s1 was
\* never cached, or a dashboard request has stored a snapshot for it before.
InitLogout ==
  /\ cache \in {[k \in Keys |-> NoEntry]} \cup
               {set_cached_data([k \in Keys |-> NoEntry], RedisKey("s1"), v, TTL, FALSE).store :
                  v \in CacheValues}
  /\ HandlersIdle
  /\ ApiIdle
  /\ CoerceIdle
  /\ ToolIdle
\* The first logout runs, any number of times; once the second has begun,
\* only the second does.
NextLogout ==
  \/ lpc["l2"] = "idle" /\ Logout("l1")
  \/ lpc["l1"] = "done" /\ Logout("l2")
  \/ Tick
SpecLogout == InitLogout /\ [][NextLogout]_vars

\* ------------------------------------------- the coercer on its own
Alphabet == {"1", ".", "-", " ", "e", "x"}
Strings == UNION {[1..n -> Alphabet] : n \in 0..MaxStrLen}
Leaves == {PyStr(s) : s \in Strings} \cup {PyInt(7), PyFloat(5, 1), PyBool(TRUE), PyNone}
InnerLeaves == {PyStr(<<" ", "1">>), PyStr(<<"x", " ">>), PyInt(3)}
Nested(leaf) == PyDict([k \in {"b"} |-> leaf])
CoerceInputs ==
  {PyDict([k \in {"a"} |-> x]) : x \in Leaves}
  \cup {PyDict([k \in {"n"} |-> Nested(x)]) : x \in Leaves}
  \cup {PyDict([k \in {"a", "n"} |-> IF k = "a" THEN x ELSE Nested(y)]) :
          x \in Leaves, y \in InnerLeaves}

InitCoerce ==
  /\ cache = [k \in Keys |-> NoEntry]
  /\ HandlersIdle
  /\ ApiIdle
  /\ cx \in CoerceInputs
  /\ cy = EmptyDict
  /\ cz = EmptyDict
  /\ cstage = 0
  /\ ToolIdle

CoerceOnce ==
  /\ cstage = 0
  /\ cy' = convert_values_to_number(cx)
  /\ cstage' = 1
  /\ UNCHANGED <<cx, cz, cacheVars, dashVars, logoutVars, apiVars, toolVars>>

CoerceTwice ==
  /\ cstage = 1
  /\ cz' = convert_values_to_number(cy)
  /\ cstage' = 2
  /\ UNCHANGED <<cx, cy, cacheVars, dashVars, logoutVars, apiVars, toolVars>>

NextCoerce == CoerceOnce \/ CoerceTwice

SpecCoerce == InitCoerce /\ [][NextCoerce]_vars

\* ------------------------------------- the helpers of tools.py alone
\* One helper is called once on one argument.
ToolInit(calls) ==
  /\ cache = [k \in Keys |-> NoEntry]
  /\ HandlersIdle
  /\ ApiIdle
  /\ CoerceIdle
  /\ call \in calls
  /\ ret = NoReturn
Returns(value) ==
  /\ ret = NoReturn
  /\ ret' = [t |-> "returned", val |-> value]
  /\ UNCHANGED <<call, cacheVars, dashVars, logoutVars, apiVars, coerceVars>>

\* The two coercers on one text value: a marks-table cell, a mapping leaf.
NumberCalls ==
  {[fn |-> "to_number", arg |-> PyStr(s)] : s \in Strings}
  \cup {[fn |-> "convert_values_to_number", arg |-> PyDict([k \in {"a"} |-> PyStr(s)])] :
          s \in Strings}
CallToNumber == call.fn = "to_number" /\ Returns(to_number(call.arg))
CallConvert ==
  call.fn = "convert_values_to_number" /\ Returns(convert_values_to_number(call.arg))
NextNumber == CallToNumber \/ CallConvert
SpecNumber == ToolInit(NumberCalls) /\ [][NextNumber]_vars

\* format_oe_subject on names put together from the pieces the rule looks for.
Pieces == {OEPrefix, OETag, <<"D">>, <<" ">>, <<"O">>, <<"E">>, <<"-">>}
RECURSIVE Flatten(_)
Flatten(q) == IF q = <<>> THEN <<>> ELSE Head(q) \o Flatten(Tail(q))
\* The callers pass name.strip().
SubjectNames ==
  {name \in {Flatten(q) : q \in UNION {[1..n -> Pieces] : n \in 0..MaxPieces}} :
     Strip(name) = name}
OECalls == {[fn |-> "format_oe_subject", arg |-> name] : name \in SubjectNames}
CallFormatOE == call.fn = "format_oe_subject" /\ Returns(format_oe_subject(call.arg))
NextOE == CallFormatOE
SpecOE == ToolInit(OECalls) /\ [][NextOE]_vars

\* The attendance matrices on tables of two data rows over every choice of
\* header names and row lengths.
HeaderNames ==
  {<<"D", "S">>, <<"E", "C", "A", "1">>, <<"e", "c", "a">>, OEPrefix \o ECA,
   OEPrefix \o <<"D", "S">>}
RowTitles == <<"Held Classes", "Presentees">>
AttendanceCalls ==
  {[fn |-> "attendance_matrix",
    arg |-> [names |-> names, offset |-> offset,
             rows |-> [j \in 1..2 |-> [title |-> RowTitles[j], ncells |-> lens[j]]]]] :
     names \in UNION {[1..n -> HeaderNames] : n \in 0..MaxSubjects},
     lens \in [1..2 -> 0..(MaxSubjects + 2)],
     offset \in {1, 2}}
CallAttendanceMatrix ==
  /\ call.fn = "attendance_matrix"
  /\ Returns(AttendanceMatrix(call.arg.names, call.arg.rows, call.arg.offset))
NextAttendance == CallAttendanceMatrix
SpecAttendance == ToolInit(AttendanceCalls) /\ [][NextAttendance]_vars

\* parse_marks_table on the marks tables with the two label columns, up to
\* MaxComponents further main headers, one subject row (preceded, in a short
\* table, by a row that lacks its last cell) and the two closing rows.
DigitChar(i) ==
  CASE i = 0 -> "0" [] i = 1 -> "1" [] i = 2 -> "2" [] i = 3 -> "3" [] i = 4 -> "4"
    [] i = 5 -> "5" [] i = 6 -> "6" [] i = 7 -> "7" [] i = 8 -> "8" [] OTHER -> "9"
Int1 == IntPrefix \o <<"1">>
Quiz1 == QuizPrefix \o <<"1">>
Asst1 == AsstPrefix \o <<"1">>
Lab1 == <<"L", "a", "b", "1">>
ScoreHeaders == {Int1, Quiz1, Asst1, SessionalPrefix, Lab1, ExternalGrades}
MaxTexts == {<<"-">>, <<"2", "0">>}
SecuredTexts == {<<>>, <<"0">>, <<"1", "8">>}
\* The cells of a subject row: the k-th score pair reads pairs[k].
MarksCells(cmap, pairs) ==
  [i \in 1..Len(cmap) |->
    LET k == Cardinality({j \in 1..i : cmap[j][2] = cmap[i][2]})
    IN  CASE cmap[i] = <<SNo, "single">> -> <<"1">>
          [] cmap[i] = <<SubjectName, "single">> -> <<"D", "S">>
          [] cmap[i][2] = "grade" -> <<"A">>
          [] cmap[i][2] = "points" -> <<"9">>
          [] cmap[i][2] = "credits" -> <<"3">>
          [] cmap[i][2] = "max" -> pairs[k][1]
          [] cmap[i][2] = "secured" -> pairs[k][2]]
\* The totals row: the label cell over the two label columns, then n values.
TotalCells(n) ==
  <<[text |-> <<"T", "o", "t", "a", "l">>, colspan |-> 2]>> \o
  [i \in 1..n |-> [text |-> <<"5", DigitChar(i)>>, colspan |-> 1]]
\* The percentage row: the label, one value per further main header, the SGPA.
PercentCells(n) ==
  <<PercentageLabel>> \o [i \in 1..n |-> <<"7", DigitChar(i)>>] \o <<SGPA \o <<"8">>>>
MarksTable(extra, pairs, short) ==
  LET main_headers == <<SNo, SubjectName>> \o extra
      cmap == component_map(main_headers)
      cells == MarksCells(cmap, pairs)
  IN  [main_headers |-> main_headers,
       data_rows |-> IF short THEN <<SubSeq(cells, 1, Len(cells) - 1), cells>> ELSE <<cells>>,
       total_cells |-> TotalCells(Len(cmap) - (IF short THEN 3 ELSE 2)),
       percent_cells |-> PercentCells(Len(extra))]
MarksCalls ==
  {[fn |-> "parse_marks_table", arg |-> MarksTable(extra, pairs, short)] :
     extra \in UNION {[1..n -> ScoreHeaders] : n \in 1..MaxComponents},
     pairs \in [1..MaxComponents -> MaxTexts \X SecuredTexts],
     short \in BOOLEAN}
CallParseMarks ==
  /\ call.fn = "parse_marks_table"
  /\ Returns(MarksData(call.arg.main_headers, call.arg.data_rows, call.arg.total_cells,
                       call.arg.percent_cells))
NextMarks == CallParseMarks
SpecMarks == ToolInit(MarksCalls) /\ [][NextMarks]_vars

\* get_current_sem on every dashboard page of the page model, with either
\* kind of onclick.
SemPages == {[html EXCEPT !.onclick = o] : html \in AllDashPages, o \in {"quoted", "bare"}}
SemCalls == {[fn |-> "get_current_sem", arg |-> html] : html \in SemPages}
CallCurrentSem ==
  /\ call.fn = "get_current_sem"
  /\ Returns(get_current_sem(call.arg, "r1"))
NextSem == CallCurrentSem
SpecSem == ToolInit(SemCalls) /\ [][NextSem]_vars

\* ------------------------------------------------------------ claims
\* The requests that finished on the miss path: they issued the dashboard GET.
Missed(r) == pc[r] = "done" /\ nfetch[r] >= 1
\* The responses a stored value was assembled from, read off its parts.
SourcesOf(value) ==
  {value.v["hiddenFields"].v["viewstate"].v[3],
   value.v["hiddenFields"].v["viewstate_generator"].v[3],
   value.v["hiddenFields"].v["event_validation"].v[3],
   value.v["dashboardData"].v["DashBoard"].v["Name"].v[2],
   value.v["dashboardData"].v["Student Image"].v[2],
   value.v["dashboardData"].v["Marks Data"].v["subjects"].v[1].v["grade"].v[2]}

\* C1: a dashboard request one of whose sub-page fetches failed (network
\* error or non-success status) ends with an error and has written nothing to
\* the cache.
C1_FailedFetchFailsRequest ==
  \A r \in Requests :
    defects[r] \cap {"net", "status"} # {} =>
      /\ pc[r] = "done" => ~result[r].ok
      /\ ~wrote[r]

\* C2: a request whose dashboard page lacks "Logout" has ended with the
\* session-expired error, has issued the dashboard GET only (no sub-page
\* fetch) and has written nothing to the cache.
C2_SessionExpired ==
  \A r \in Requests :
    "logout" \in defects[r] =>
      /\ pc[r] = "done"
      /\ result[r] = Raise("HTTPException 401")
      /\ nfetch[r] = 1
      /\ ~wrote[r]
C2_Witness == \E r \in Requests : "logout" \in defects[r] /\ pc[r] = "done"

\* C3: when the cache read of a request succeeds on a key holding an entry,
\* the request ends at once with the snapshot last stored there, fetches
\* nothing upstream and leaves the cache alone; when a request that went the
\* miss path has its store carried out, the key of its session then reads back
\* as the snapshot it returns together with its hidden fields, and no other
\* key changes.
C3_Hit(r) ==
  (pc[r] = "cache_get" /\ pc'[r] # "cache_get" /\ ~redisErr'
     /\ cache[RedisKey(sid[r])].t = "entry") =>
    /\ pc'[r] = "done"
    /\ result'[r] = Ok(lastStore[RedisKey(sid[r])].value.v["dashboardData"])
    /\ nfetch'[r] = 0
    /\ cache' = cache
C3_Store(r) ==
  (pc[r] = "cache_set" /\ pc'[r] = "done" /\ ~redisErr') =>
    /\ result'[r].ok
    /\ get_cached_data(cache', RedisKey(sid[r]), FALSE) =
         PyDict([k \in {"dashboardData", "hiddenFields"} |->
                   IF k = "dashboardData" THEN result'[r].val ELSE work[r].hiddenFields])
    /\ \A k \in Keys \ {RedisKey(sid[r])} : cache'[k] = cache[k]
C3_ReadThrough == [][\A r \in Requests : C3_Hit(r) /\ C3_Store(r)]_vars
C3_Witness ==
  \E r1, r2 \in Requests :
    /\ pc[r1] = "done" /\ result[r1].ok /\ nfetch[r1] = 0
    /\ pc[r2] = "done" /\ result[r2].ok /\ wrote[r2]
    /\ result[r1] = result[r2]

\* C4: the step in which a request leaves the gather to parse the sub-pages
\* is taken only when both sub-page fetches have resolved.
C4_ParseAfterBoth ==
  [][\A r \in Requests :
       (pc[r] = "gather" /\ pc'[r] # "gather" /\ result'[r].err # "RequestError") =>
         attResp[r].t = "resp" /\ marksResp[r].t = "resp"]_vars
C4_Witness ==
  \E r1, r2 \in Requests :
    /\ pc[r1] = "cache_set" /\ first[r1] = "attendance"
    /\ pc[r2] = "cache_set" /\ first[r2] = "marks"

\* C5: of two finished requests of one session that both went the miss path,
\* each that returned a snapshot made all three upstream GETs itself, and
\* unless a delete or an expiry came after the last store, the key holds
\* exactly the value of the store carried out last: the snapshot and hidden
\* fields of that one request, all assembled from its own responses.
C5_LastWriteWins ==
  \A r1, r2 \in Requests :
    (r1 # r2 /\ Missed(r1) /\ Missed(r2) /\ sid[r1] = sid[r2]) =>
      LET key == RedisKey(sid[r1])
      IN  /\ \A r \in {r1, r2} : result[r].ok => nfetch[r] = 3
          /\ (wrote[r1] \/ wrote[r2]) /\ lastStore[key].by # "none" =>
               /\ cache[key].t = "entry"
               /\ lastStore[key].by \in {r1, r2}
               /\ get_cached_data(cache, key, FALSE) = lastStore[key].value
               /\ SourcesOf(get_cached_data(cache, key, FALSE)) = {lastStore[key].by}
C5_Witness ==
  \E r1, r2 \in Requests :
    /\ r1 # r2 /\ Missed(r1) /\ Missed(r2) /\ sid[r1] = sid[r2]
    /\ wrote[r1] /\ wrote[r2]
    /\ lastStore[RedisKey(sid[r1])].by = r2
    /\ cache[RedisKey(sid[r1])].t = "entry"

C7_LogoutClears == \A k \in Keys : loggedOut[k] => cache[k].t = "nil"

\* C8: a request that finished on pages lacking nothing but mandatory
\* sections ended with the portal error.
C8_MandatoryAbsence ==
  \A r \in Requests :
    (pc[r] = "done" /\ defects[r] # {} /\ defects[r] \subseteq MandatorySections) =>
      result[r] = Raise("CollegePortalError")

\* C9: a request that finished on pages lacking nothing but optional fields
\* returned a snapshot.
C9_OptionalAbsence ==
  \A r \in Requests :
    (pc[r] = "done" /\ defects[r] # {} /\ defects[r] \subseteq OptionalFields) =>
      result[r].ok

\* C10: a second pass of convert_values_to_number over the result of the
\* first changes no key and no value.
C10_Idempotent == cstage = 2 => cz = cy
C10_Witness == cstage = 2 /\ cy # cx /\ cz = cy

\* C11: on either path, a text value comes back untouched when it is empty
\* or whitespace only, else as the integer it parses as, else as the float it
\* parses as, else as the original string.
C11_Text == IF call.fn = "to_number" THEN call.arg ELSE call.arg.v["a"]
C11_Result == IF call.fn = "to_number" THEN ret.val ELSE ret.val.v["a"]
C11_CoercionContract ==
  (call.fn \in {"to_number", "convert_values_to_number"} /\ ret.t = "returned") =>
    LET v == Strip(C11_Text.v)
    IN  C11_Result =
          IF v = <<>> THEN C11_Text
          ELSE IF ParseInt(v).ok THEN ParseInt(v).val
          ELSE IF ParseFloat(v).ok THEN ParseFloat(v).val
          ELSE C11_Text

\* C12: a name beginning with "OE-" comes back as the name without that
\* leading "OE-" and without a trailing "(OE)" if it has one, followed by
\* "(OE)-OE"; every other name comes back unchanged.
C12_Rest == SubSeq(call.arg, Len(OEPrefix) + 1, Len(call.arg))
C12_OpenElectiveRewrite ==
  (call.fn = "format_oe_subject" /\ ret.t = "returned") =>
    ret.val = IF ~StartsWith(call.arg, OEPrefix) THEN call.arg
              ELSE (IF EndsWith(C12_Rest, OETag)
                      THEN SubSeq(C12_Rest, 1, Len(C12_Rest) - Len(OETag))
                      ELSE C12_Rest) \o OETag \o <<"-", "O", "E">>

\* C13: in a returned matrix no key of any row's mapping begins with "ECA"
\* in any letter case.
C13_NoECAKey ==
  (call.fn = "attendance_matrix" /\ ret.t = "returned" /\ ret.val.ok) =>
    \A t \in DOMAIN ret.val.val.v : \A k \in DOMAIN ret.val.val.v[t].v :
      ~StartsWith([i \in 1..Len(k) |-> UpperChar(k[i])], ECA)
\* A lower-case ECA header stands before a kept one and the row has values
\* for both.
C13_Witness ==
  /\ call.fn = "attendance_matrix" /\ ret.t = "returned" /\ ret.val.ok
  /\ Len(call.arg.names) >= 2
  /\ call.arg.names[1] = <<"e", "c", "a">>
  /\ call.arg.names[2] = <<"D", "S">>
  /\ DOMAIN ret.val.val.v = {"Held Classes", "Presentees"}
  /\ <<"D", "S">> \in DOMAIN ret.val.val.v["Held Classes"].v

\* The header columns a row of the call has a retained value for, the names
\* retained, and the mapping the matrix holds for row j.
C14_Kept ==
  {i \in 1..Len(call.arg.names) :
     ~StartsWith(Upper(format_oe_subject(call.arg.names[i])), ECA)}
C14_Valued(j) ==
  {i \in C14_Kept : i + call.arg.offset <= call.arg.rows[j].ncells}
C14_Name(i) == format_oe_subject(call.arg.names[i])
C14_Mapping(j) == ret.val.val.v[call.arg.rows[j].title].v
C14_Paired(j) ==
  /\ Cardinality(DOMAIN C14_Mapping(j)) = Cardinality(C14_Valued(j))
  /\ \A k \in DOMAIN C14_Mapping(j) :
       \E i \in C14_Valued(j) : C14_Name(i) = k /\ C14_Mapping(j)[k] = PyInt(40 + i)
C14_Returned == call.fn = "attendance_matrix" /\ ret.t = "returned" /\ ret.val.ok

\* C14 as stated: a data row with fewer retained values than there are
\* retained names gets a mapping of exactly as many entries as it has
\* retained values (the shorter list), each retained name paired with the
\* value of its own header column.
C14_TruncationAsStated ==
  C14_Returned =>
    \A j \in 1..Len(call.arg.rows) :
      (call.arg.rows[j].ncells > 0
         /\ Cardinality(C14_Valued(j)) < Cardinality(C14_Kept)) => C14_Paired(j)

\* C14, amended: the same for every data row, short or not, of a table whose
\* retained names are all different.
C14_Truncation ==
  (C14_Returned /\ \A i, k \in C14_Kept : C14_Name(i) = C14_Name(k) => i = k) =>
    \A j \in 1..Len(call.arg.rows) : call.arg.rows[j].ncells > 0 => C14_Paired(j)
\* An excluded column stands before two retained ones and the first row has
\* a value for the first of them only.
C14_Witness ==
  /\ C14_Returned
  /\ call.arg.names = <<(<<"e", "c", "a">>), (<<"D", "S">>), OEPrefix \o <<"D", "S">>>>
  /\ call.arg.offset = 1
  /\ call.arg.rows[1].ncells = 3
  /\ DOMAIN C14_Mapping(1) = {<<"D", "S">>}
  /\ C14_Mapping(1)[<<"D", "S">>] = PyInt(42)

\* The subject rows of the table of the call, in order, and for a score label
\* of the call the cells of a row that the last column pair with that label
\* holds, coerced.
C15_Rows ==
  Select(call.arg.data_rows,
         {row \in {call.arg.data_rows[i] : i \in 1..Len(call.arg.data_rows)} :
            Len(row) = Len(component_map(call.arg.main_headers))})
C15_Column(p) == Len(component_map(SubSeq(call.arg.main_headers, 1, p - 1))) + 1
C15_Scored ==
  {p \in 1..Len(call.arg.main_headers) :
     call.arg.main_headers[p] \notin {SNo, SubjectName, ExternalGrades}}
C15_Family(label) ==
  IF StartsWith(label, IntPrefix) THEN "internal"
  ELSE IF StartsWith(label, QuizPrefix) THEN "quiz"
  ELSE IF StartsWith(label, AsstPrefix) THEN "assignment"
  ELSE IF StartsWith(label, SessionalPrefix) THEN "sessional"
  ELSE "none"
C15_Families == {"internal", "quiz", "assignment", "sessional"}
\* The entries of family list f of subject j that carry the name `label`.
C15_Entries(j, f, label) ==
  LET list == ret.val.v["subjects"].v[j].v["components"].v[f].v
  IN  {i \in 1..Len(list) : list[i].v["name"] = PyStr(label)}
\* The entry a column pair at main header p gives in row j.
C15_Entry(j, p) ==
  ComponentEntry(call.arg.main_headers[p],
                 to_number(PyStr(C15_Rows[j][C15_Column(p)])),
                 to_number(PyStr(C15_Rows[j][C15_Column(p) + 1])))
C15_Last(p) ==
  \A q \in C15_Scored : call.arg.main_headers[q] = call.arg.main_headers[p] => q <= p

\* C15 as stated: in every parsed subject row, every score column pair with
\* a known prefix has its entry in exactly one family list, the list of its
\* prefix, and a pair with another label has an entry in no list.
C15_ClassificationAsStated ==
  ret.t = "returned" /\ call.fn = "parse_marks_table" =>
    /\ Len(ret.val.v["subjects"].v) = Len(C15_Rows)
    /\ \A j \in 1..Len(C15_Rows) : \A p \in C15_Scored :
         LET label == call.arg.main_headers[p]
         IN  \A f \in C15_Families :
               IF f = C15_Family(label)
                 THEN \E i \in C15_Entries(j, f, label) :
                        ret.val.v["subjects"].v[j].v["components"].v[f].v[i] = C15_Entry(j, p)
                 ELSE C15_Entries(j, f, label) = {}

\* C15: in every parsed subject row, every score label that begins with Int,
\* Quiz or Asst has exactly one entry, in the list of its prefix and in no
\* other, holding the row's coerced values of the last column pair with that
\* label; a label that begins with SessionalMarks has at most one entry, in
\* the sessional list only and with those values; any other label has none.
C15_Classification ==
  ret.t = "returned" /\ call.fn = "parse_marks_table" =>
    /\ Len(ret.val.v["subjects"].v) = Len(C15_Rows)
    /\ \A j \in 1..Len(C15_Rows) : \A p \in C15_Scored :
         LET label == call.arg.main_headers[p]
         IN  C15_Last(p) =>
               \A f \in C15_Families :
                 LET list == ret.val.v["subjects"].v[j].v["components"].v[f].v
                     found == C15_Entries(j, f, label)
                 IN  /\ f # C15_Family(label) => found = {}
                     /\ f = C15_Family(label) =>
                          /\ Cardinality(found) <= 1
                          /\ f # "sessional" => Cardinality(found) = 1
                          /\ \A i \in found : list[i] = C15_Entry(j, p)

\* A short table whose second row alone is parsed: an internal pair filed
\* under internal, a later pair with an unmatched label filed nowhere.
C15_Witness ==
  /\ ret.t = "returned" /\ call.fn = "parse_marks_table"
  /\ Len(call.arg.data_rows) = 2 /\ Len(C15_Rows) = 1
  /\ \E p, q \in C15_Scored :
       /\ p < q
       /\ C15_Family(call.arg.main_headers[p]) = "internal"
       /\ C15_Family(call.arg.main_headers[q]) = "none"
       /\ ret.val.v["subjects"].v[1].v["components"].v["internal"].v = <<C15_Entry(1, p)>>
  /\ ret.val.v["subjects"].v[1].v["components"].v["sessional"].v = <<>>

\* C16: in every parsed subject row, a SessionalMarks pair has no entry in
\* components.sessional exactly when both its max and its secured value are
\* empty or zero; a pair with one value that is neither has its entry.
C16_SessionalDrop ==
  ret.t = "returned" /\ call.fn = "parse_marks_table" =>
    \A j \in 1..Len(C15_Rows) : \A p \in C15_Scored :
      LET label == call.arg.main_headers[p]
          max_val == C15_Entry(j, p).v["max"]
          secured_val == C15_Entry(j, p).v["secured"]
      IN  C15_Last(p) /\ C15_Family(label) = "sessional" =>
            (C15_Entries(j, "sessional", label) = {}
               <=> IsDashOrZero(max_val) /\ IsDashOrZero(secured_val))

\* The totals-row values in order, the cells of colspan 2 left out.
C18_Values ==
  LET cells == call.arg.total_cells
      valued == Select([i \in 1..Len(cells) |-> i], {i \in 1..Len(cells) : cells[i].colspan # 2})
  IN  [j \in 1..Len(valued) |-> to_number(PyStr(cells[valued[j]].text))]

\* C18: for every main header with a known component prefix whose two schema
\* columns the totals row has values for, summary.total_marks holds under the
\* lower-cased header the totals-row values at those two columns (of the
\* last such column pair, when a label repeats), whatever main headers
\* precede it.
C18_TotalsPositional ==
  ret.t = "returned" /\ call.fn = "parse_marks_table" =>
    \A p \in C15_Scored :
      LET label == call.arg.main_headers[p]
          total_marks == ret.val.v["summary"].v["total_marks"]
          at == C15_Column(p) - 2
      IN  C15_Last(p) /\ C15_Family(label) # "none" /\ at + 1 <= Len(C18_Values) =>
            /\ DictHas(total_marks, Lower(label))
            /\ total_marks.v[Lower(label)].v["max"] = C18_Values[at]
            /\ total_marks.v[Lower(label)].v["secured"] = C18_Values[at + 1]

\* The page a request received was authenticated and did arrive.
C17_Authenticated(r) == "logout" \notin defects'[r] /\ "net" \notin defects'[r]
\* The request has both sub-page GETs under way, none resolved: one to the
\* attendance link, one to the marks link, and three GETs issued in all.
C17_BothStarted(r) ==
  /\ pc'[r] = "gather" /\ nfetch'[r] = 3
  /\ attResp'[r] = Pending /\ marksResp'[r] = Pending
  /\ Len(work'[r].tasks) = 2
  /\ work'[r].tasks[1] = work'[r].current_sem.v["Attendance Link"]
  /\ work'[r].tasks[2] = work'[r].current_sem.v["Marks Link"]
\* Within a request the cache is read once, and the count of GETs is settled
\* when the dashboard page has been dealt with.
C17_OneRead(r) ==
  /\ pc'[r] = "cache_get" => pc[r] \in {"idle", "done", "cache_get"}
  /\ pc[r] \in {"gather", "cache_set"} /\ pc'[r] # "cache_get" => nfetch'[r] = nfetch[r]
  /\ pc[r] = "cache_get" /\ pc'[r] = "done" => nfetch'[r] = 0

\* C17 as stated: a request reads the cache at most once, and when after a
\* miss an authenticated dashboard page arrives, exactly two sub-page GETs
\* are issued, to the attendance and the marks link, both before either is
\* awaited.
C17_TwoFetchesAsStated ==
  [][\A r \in Requests :
       /\ C17_OneRead(r)
       /\ pc[r] = "dash_get" /\ pc'[r] # "dash_get" /\ C17_Authenticated(r) =>
            C17_BothStarted(r)]_vars

\* C17: a request reads the cache at most once, and when after a miss an
\* authenticated dashboard page arrives, either the extraction of the page
\* raises and the request fails with no sub-page GET issued, or exactly two
\* sub-page GETs are issued, to the attendance and the marks link, both
\* before either is awaited.
C17_TwoFetches ==
  [][\A r \in Requests :
       /\ C17_OneRead(r)
       /\ pc[r] = "dash_get" /\ pc'[r] # "dash_get" /\ C17_Authenticated(r) =>
            \/ C17_BothStarted(r)
            \/ pc'[r] = "done" /\ ~result'[r].ok /\ nfetch'[r] = 1]_vars

\* A request with both sub-page GETs under way, to two different links, and
\* none resolved.
C17_Witness ==
  \E r \in Requests :
    /\ pc[r] = "gather" /\ nfetch[r] = 3
    /\ attResp[r] = Pending /\ marksResp[r] = Pending
    /\ work[r].tasks = <<work[r].current_sem.v["Attendance Link"],
                          work[r].current_sem.v["Marks Link"]>>
    /\ work[r].tasks[1] # work[r].tasks[2]

C19_Links == {"Attendance Link", "Marks Link"}
\* The visible-text fields of the summary row of the page of the call.
C19_Visible(current_sem) ==
  call.arg.summary = "ok" =>
    \A i \in 1..call.arg.ncells :
      SummaryHeaders[i] # "Marks" =>
        /\ DictHas(current_sem, SummaryHeaders[i])
        /\ current_sem.v[SummaryHeaders[i]] = CoerceLeaf(PyStr(CellText(i)))

\* C19: when extract_att_summary succeeds, get_current_sem has a link field
\* exactly for each link the extraction resolved, and it holds that link as an
\* absolute URL under the sinfo base, never the text of an anchor; when the
\* extraction raises, the result has the visible-text fields of the summary
\* row and neither link field.
C19_LinksFromExtraction ==
  ret.t = "returned" /\ call.fn = "get_current_sem" =>
    LET current_sem == ret.val
        dash_row == extract_att_summary(call.arg, "r1")
    IN  /\ dash_row.ok =>
              /\ \A k \in C19_Links : DictHas(current_sem, k) <=> DictHas(dash_row.val, k)
              /\ DictHas(current_sem, "Attendance Link") =>
                    current_sem.v["Attendance Link"] = dash_row.val.v["Attendance Link"]
              /\ DictHas(current_sem, "Marks Link") =>
                    current_sem.v["Marks Link"] =
                      PyStr(<<SinfoBase>> \o dash_row.val.v["Marks Link"].v)
        /\ ~dash_row.ok =>
              /\ \A k \in C19_Links : ~DictHas(current_sem, k)
              /\ C19_Visible(current_sem)
        /\ \A k \in C19_Links :
              DictHas(current_sem, k) =>
                /\ current_sem.v[k].t = "str"
                /\ Head(current_sem.v[k].v) = SinfoBase
                /\ \A i \in 1..8 : current_sem.v[k] # PyStr(CellText(i))

\* A summary row with all eight cells and both anchors whose onclick has no
\* quoted target: the extraction raises, and the row's visible text is
\* returned without a link field.
C19_Witness ==
  /\ ret.t = "returned" /\ call.fn = "get_current_sem"
  /\ call.arg.summary = "ok" /\ call.arg.ncells = 8
  /\ call.arg.attAnchor /\ call.arg.marksAnchor
  /\ ~extract_att_summary(call.arg, "r1").ok
  /\ DictHas(ret.val, "Year") /\ DictHas(ret.val, "Attendance")
  /\ \A k \in C19_Links : ~DictHas(ret.val, k)

\* A logout reads the cache and finds no entry under its key.
C20_Miss(l) ==
  lpc[l] = "cache_get" /\ lpc'[l] # "cache_get" /\ cache[RedisKey(lsid[l])].t = "nil"
\* Such a logout answers with the failure, sends no POST, leaves the cache.
C20_NoOp(l) ==
  /\ lpc'[l] = "done" /\ lresult'[l] = "no active session"
  /\ posts'[l] = 0
  /\ cache' = cache
\* The second logout has begun, for the session of the first.
C20_Sequential == lpc'["l2"] # "idle" /\ lsid'["l2"] = lsid'["l1"]

\* C20 as stated: a logout that finds no entry returns the failure, sends no
\* POST and leaves the cache unchanged; and of two logouts made one after the
\* other for one session with no dashboard request in between, the second
\* sends no POST when the first has sent one.
C20_SecondLogoutAsStated ==
  [][/\ \A l \in AllLogouts : C20_Miss(l) => C20_NoOp(l)
     /\ C20_Sequential /\ posts'["l1"] = 1 => posts'["l2"] = 0]_vars

\* C20: a logout that finds no entry returns the failure, sends no POST and
\* leaves the cache unchanged; and once a logout for a session has sent its
\* POST and its delete has been carried out, no later logout for that
\* session sends a POST as long as no dashboard request is made.
C20_SecondLogout ==
  [][\A l \in AllLogouts :
       /\ C20_Miss(l) => C20_NoOp(l)
       /\ lpc[l] = "cache_get" /\ lpc'[l] = "post" => ~loggedOut[RedisKey(lsid[l])]]_vars

\* The second of two logouts for a session whose first one sent its POST
\* and deleted the entry: it has ended with the failure and without a POST.
C20_Witness ==
  /\ lsid["l2"] = lsid["l1"]
  /\ lpc["l1"] = "done" /\ lresult["l1"] = "logged out" /\ posts["l1"] = 1
  /\ lpc["l2"] = "done" /\ lresult["l2"] = "no active session" /\ posts["l2"] = 0
  /\ loggedOut[RedisKey(lsid["l2"])]
  /\ cache[RedisKey(lsid["l2"])].t = "nil"

\* The request leaves its cache read, or its cache write, in this step.
C21_Read(r) == pc[r] = "cache_get" /\ pc'[r] # "cache_get"
C21_Write(r) == pc[r] = "cache_set" /\ pc'[r] # "cache_set"

\* C21: no cache step ends a dashboard request with an exception; a cache
\* read that raises sends the request on to the upstream fetch exactly as a
\* miss does, whatever the cache holds; a cache write that raises leaves the
\* cache as it was and the request still returns the snapshot it assembled.
C21_CacheFailuresSwallowed ==
  [][\A r \in Requests :
       /\ C21_Read(r) \/ C21_Write(r) => pc'[r] \in {"dash_get", "done"}
       /\ (C21_Read(r) \/ C21_Write(r)) /\ pc'[r] = "done" => result'[r].ok
       /\ C21_Read(r) /\ redisErr' =>
            /\ pc'[r] = "dash_get" /\ nfetch'[r] = 1
            /\ result'[r] = NoResult
            /\ cache' = cache
       /\ C21_Write(r) /\ redisErr' =>
            /\ pc'[r] = "done"
            /\ result'[r] = Ok(data[r].v["dashboardData"])
            /\ ~wrote'[r]
            /\ cache' = cache]_vars

\* After a first request has stored its snapshot, a second one has fetched
\* everything upstream all the same, its write has raised, and it has
\* returned its snapshot; the entry in the cache is still the first one's.
C21_Witness ==
  /\ \A l \in Logouts : lpc[l] = "idle"
  /\ redisErr
  /\ \E r1, r2 \in Requests :
       /\ r1 # r2 /\ sid[r1] = sid[r2]
       /\ pc[r1] = "done" /\ wrote[r1]
       /\ pc[r2] = "done" /\ result[r2].ok /\ nfetch[r2] = 3 /\ ~wrote[r2]
       /\ lastStore[RedisKey(sid[r2])].by = r1
       /\ cache[RedisKey(sid[r2])].t = "entry"

====
